---------------------------- MODULE Spec2Model ----------------------------
(***************************************************************************)
(* A model of src/imdb_scraper.py (class IMDbTop250Scraper).               *)
(*                                                                         *)
(* The specifications share the variables below:                           *)
(*   Spec         scrape_top250: the three stages, fetch by fetch, the     *)
(*                selection by length and the normalisation;               *)
(*   SpecSelection  scrape_top250 over whatever lists its stages return;   *)
(*   SpecNorm     the normalisation of scrape_top250 (lines 631-648) on    *)
(*                every bounded winning list;                              *)
(*   SpecAnyPage  extract_movies_from_any_page, block by block;            *)
(*   SpecSweep    parse_html_for_movies, selector by selector;             *)
(*   SpecEmbedded extract_from_embedded_json, pattern by pattern;          *)
(*   SpecClassicPage  extract_from_classic_page, unit by unit;             *)
(*   SpecDetails  get_additional_details on one detail page;               *)
(*   SpecRetry    get_page_with_retries, attempt by attempt;               *)
(*   SpecMain     main around scrape_top250, with a user interrupt.        *)
(* The page parsers read their document as they go: each step draws the    *)
(* next block, script or selector match from a bounded set; the blocks and *)
(* the selector matches are recorded in `visited`.                         *)
(*                                                                         *)
(* Lists of 50..250 items cannot be enumerated, so the thresholds of the   *)
(* code are scaled down, each keeping its comparison operator and their    *)
(* order where the code compares one length against two of them:           *)
(*   50 -> 1 (ClassicMin, SelectorMin, EmbeddedMin),                       *)
(*   100 -> 2 (JsonLdMin, HtmlBelow), 200 -> 3 (GoodEnough),               *)
(*   250 -> 2 (Cap; never compared with another threshold).                *)
(*                                                                         *)
(* Python's None is the integer None (-1): the ranks, years and ratings    *)
(* the extractors produce come from \d+ matches and are never negative.    *)
(* A missing or empty title (falsy in `movie.get('title')`) is NoTitle.    *)
(***************************************************************************)
EXTENDS Integers, Sequences, FiniteSets, TLC

VARIABLES
    pc,            \* position of the modelled function
    idx,           \* 1-based index of the next attempt of the running loop
    movies,        \* the running function's local list `movies`
    all_movies,    \* scrape_top250's all_movies
    stage_result,  \* what each try_* stage returned (<<>> before it ran)
    stage_status,  \* per stage: "notrun", "running", "returned" or "raised"
    last,          \* the most recent fetch: [stage, idx, outcome, n]
    longest,       \* history: per stage, the longest list extracted from a page
    result,        \* the value returned
    outcome,       \* "running", "returned" or the exception raised
    passes,        \* how many times the normaliser has been applied
    visited,       \* history: the blocks, matches, units or events processed
    retries        \* the retries argument of get_page_with_retries

vars == <<pc, idx, movies, all_movies, stage_result, stage_status, last, longest,
          result, outcome, passes, visited, retries>>

-----------------------------------------------------------------------------
(* Values *)

None == -1
Unknown == "Unknown"
NoTitle == ""

\* valid_movies[:250]
Cap == 2
\* x.get('rank', 999)
MissingRank == 999
\* def get_page_with_retries(self, url, retries=3)
DefaultRetries == 3

\* Bounds of the normaliser's inputs.
MaxLen == 3
MaxRank == 2

TitleNames == <<"A", "B", "C", "D", "E", "F">>

Min(a, b) == IF a < b THEN a ELSE b

\* The dict every extractor builds; url <<src, i>> tells the page (or input
\* position) the item was extracted from.
Item(rank, title, src, i) ==
    [rank |-> rank, title |-> title, year |-> 1900 + i, rating |-> 10 - i,
     url |-> <<src, i>>]

-----------------------------------------------------------------------------
(* scrape_top250, "Clean and validate the movie list" *)

\* Mutant of KeepsMovie: seen_titles is not consulted.
KeepsEveryValid(movie, seen_titles) ==
    /\ movie.title # NoTitle
    /\ movie.title # Unknown

\* movie and movie.get('title') and movie['title'] != "Unknown"
\*   and movie['title'] not in seen_titles
KeepsMovie(movie, seen_titles) ==
    /\ movie.title # NoTitle
    /\ movie.title # Unknown
    /\ movie.title \notin seen_titles

RECURSIVE FilterFrom(_, _, _)
FilterFrom(list, k, seen_titles) ==
    IF k > Len(list) THEN <<>>
    ELSE IF KeepsMovie(list[k], seen_titles)
         THEN <<list[k]>> \o FilterFrom(list, k + 1, seen_titles \cup {list[k].title})
         ELSE FilterFrom(list, k + 1, seen_titles)

ValidMovies(list) == FilterFrom(list, 1, {})

\* key=lambda x: x.get('rank', 999): the default applies only when the key is
\* absent; every extractor sets the key, to None when it found no rank.
SortKey(movie) ==
    IF "rank" \in DOMAIN movie THEN movie.rank ELSE MissingRank

\* list.sort compares every element with a neighbour once there are two of
\* them; `<` between None and anything raises TypeError.
SortRaises(list) ==
    /\ Len(list) >= 2
    /\ \E i \in 1..Len(list) : SortKey(list[i]) = None

\* Insert x after the elements whose key is <= its own (stable).
RECURSIVE InsertSorted(_, _)
InsertSorted(sorted, x) ==
    IF sorted = <<>> THEN <<x>>
    ELSE IF SortKey(Head(sorted)) <= SortKey(x)
         THEN <<Head(sorted)>> \o InsertSorted(Tail(sorted), x)
         ELSE <<x>> \o sorted

RECURSIVE SortFrom(_, _, _)
SortFrom(list, k, sorted) ==
    IF k > Len(list) THEN sorted
    ELSE SortFrom(list, k + 1, InsertSorted(sorted, list[k]))

\* Mutant of SortByRank: sort(reverse=True).
RECURSIVE ReverseSeq(_)
ReverseSeq(list) ==
    IF list = <<>> THEN <<>> ELSE ReverseSeq(Tail(list)) \o <<Head(list)>>

SortByRankDescending(list) == ReverseSeq(SortFrom(list, 1, <<>>))

\* valid_movies.sort(key=...): ascending, stable
SortByRank(list) == SortFrom(list, 1, <<>>)

\* Mutant of Rerank: enumerate(valid_movies) without the start value 1.
RerankFromZero(list) == [i \in 1..Len(list) |-> [list[i] EXCEPT !.rank = i - 1]]

\* for i, movie in enumerate(valid_movies, 1): movie['rank'] = i
Rerank(list) == [i \in 1..Len(list) |-> [list[i] EXCEPT !.rank = i]]

\* valid_movies[:250]
Truncate(list) == SubSeq(list, 1, Min(Len(list), Cap))

Normalise(list) == Truncate(Rerank(SortByRank(ValidMovies(list))))

\* Lines 631-648 on all_movies: returns, or the sort raises TypeError, which
\* nothing in scrape_top250 catches.
NormaliseStep ==
    /\ pc = "normalise"
    /\ IF SortRaises(ValidMovies(all_movies))
       THEN /\ outcome' = "TypeError"
            /\ result' = <<>>
       ELSE /\ outcome' = "returned"
            /\ result' = Normalise(all_movies)
    /\ passes' = passes + 1
    /\ pc' = "done"
    /\ UNCHANGED <<idx, movies, all_movies, stage_result, stage_status, last, longest,
                   visited, retries>>

\* The returned list is handed to the normaliser again.
Renormalise ==
    /\ pc = "done"
    /\ outcome = "returned"
    /\ passes = 1
    /\ all_movies' = result
    /\ pc' = "normalise"
    /\ outcome' = "running"
    /\ UNCHANGED <<idx, movies, stage_result, stage_status, last, longest, result,
                   passes, visited, retries>>

NormTitles == {TitleNames[1], TitleNames[2], TitleNames[3], Unknown, NoTitle}
NormRanks == {None} \cup (1..MaxRank)

\* A winning list of n items of the given ranks and titles; item i carries its
\* input position.
WinningList(n, ranks, titles) ==
    [i \in 1..n |-> Item(ranks[i], titles[i], 0, i)]

NoFetch == [stage |-> 0, idx |-> 0, outcome |-> "nofetch", n |-> 0]

InitNorm ==
    /\ pc = "normalise"
    /\ \E n \in 0..MaxLen :
           \E ranks \in [1..n -> NormRanks], titles \in [1..n -> NormTitles] :
               all_movies = WinningList(n, ranks, titles)
    /\ idx = 0
    /\ movies = <<>>
    /\ stage_result = [s \in 1..3 |-> <<>>]
    /\ stage_status = [s \in 1..3 |-> "notrun"]
    /\ last = NoFetch
    /\ longest = [s \in 1..3 |-> <<>>]
    /\ result = <<>>
    /\ outcome = "running"
    /\ passes = 0
    /\ visited = <<>>
    /\ retries = DefaultRetries

NextNorm == NormaliseStep \/ Renormalise

SpecNorm == InitNorm /\ [][NextNorm]_vars

-----------------------------------------------------------------------------
(* scrape_top250: the three stages *)

\* len(movies) > 50 in try_classic_imdb_page
ClassicMin == 1
\* len(all_movies) < 200 before Method 2 and Method 3
GoodEnough == 3
\* len(classic_urls), len(base_params), len(endpoints)
ClassicUrls == 3
BaseParams == 3
Endpoints == 4

\* The longest list a fetched page yields.
MaxPage == 3

Attempts(stage) == <<ClassicUrls, BaseParams, Endpoints>>[stage]
StagePc(stage) == <<"stage1", "stage2", "stage3">>[stage]

\* The list an extractor builds from the page of attempt i of a stage: n items
\* in document order, each telling its page in its url.
Page(stage, i, n) ==
    [k \in 1..n |-> Item(k, TitleNames[k], <<stage, i>>, k)]

\* What a fetch can yield.  get_page_with_retries: None or a response that
\* passed raise_for_status.  session.get called directly (Method 2, and the
\* m.imdb.com endpoint of Method 3): raises, or a response of any status.
FetchOutcomes(stage, i) ==
    CASE stage = 1 -> {"none", "ok"}
      [] stage = 2 -> {"raise", "non200", "ok"}
      [] stage = 3 /\ i = 1 -> {"raise", "non200", "ok"}
      [] OTHER -> {"none", "non200", "ok"}

\* Mutants of Select: the later list wins a tie; the later list always wins.
SelectOnTie(best, candidate) ==
    IF Len(candidate) >= Len(best) THEN candidate ELSE best

SelectLatest(best, candidate) == candidate

\* if len(candidate) > len(best): best = candidate
Select(best, candidate) ==
    IF Len(candidate) > Len(best) THEN candidate ELSE best

\* Mutant of GateOpen: <= 200.
GateOpenInclusive(list) == Len(list) <= GoodEnough

\* if len(all_movies) < 200
GateOpen(list) == Len(list) < GoodEnough

\* A stage returned `returned` (how == "returned"), or its except clause
\* returned [] (how == "raised"): lines 611-612 / 619-620 / 627-628 select,
\* and the gates of lines 616 and 624 decide what runs next.
AfterStage(stage, returned, how) ==
    LET best == Select(all_movies, returned)
        next == IF stage < 3 /\ GateOpen(best) THEN stage + 1 ELSE 0
    IN  /\ all_movies' = best
        /\ stage_result' = [stage_result EXCEPT ![stage] = returned]
        /\ stage_status' =
              [s \in 1..3 |-> IF s = stage THEN how
                              ELSE IF s = next THEN "running"
                              ELSE stage_status[s]]
        /\ pc' = IF next = 0 THEN "normalise" ELSE StagePc(next)
        /\ idx' = 1
        /\ movies' = <<>>

\* history: the fetch just made, and the longest list a stage extracted
Record(stage, o, n) ==
    /\ last' = [stage |-> stage, idx |-> idx, outcome |-> o, n |-> n]
    /\ longest' = [longest EXCEPT ![stage] =
                      IF n > Len(@) THEN Page(stage, idx, n) ELSE @]

\* One iteration of the loop of try_classic_imdb_page, and its return.
ClassicAttempt ==
    /\ pc = "stage1"
    /\ \E o \in FetchOutcomes(1, idx), n \in 0..MaxPage :
        /\ o # "ok" => n = 0
        /\ Record(1, o, n)
        /\ IF o = "ok" /\ n > ClassicMin
           THEN AfterStage(1, Page(1, idx, n), "returned")
           ELSE IF idx = ClassicUrls
                THEN AfterStage(1, <<>>, "returned")
                ELSE /\ idx' = idx + 1
                     /\ UNCHANGED <<pc, movies, all_movies, stage_result,
                                    stage_status>>
    /\ UNCHANGED <<result, outcome, passes, visited, retries>>

\* One iteration of a loop that keeps its longest list in `movies`
\* (try_paginated_requests, try_mobile_and_alternative_endpoints), and its
\* return; a fetch that raises leaves through the except clause.
RunningBestAttempt(stage) ==
    \E o \in FetchOutcomes(stage, idx), n \in 0..MaxPage :
        /\ o # "ok" => n = 0
        /\ Record(stage, o, n)
        /\ IF o = "raise"
           THEN AfterStage(stage, <<>>, "raised")
           ELSE LET kept == IF o = "ok"
                            THEN Select(movies, Page(stage, idx, n))
                            ELSE movies
                IN  IF idx = Attempts(stage)
                    THEN AfterStage(stage, kept, "returned")
                    ELSE /\ movies' = kept
                         /\ idx' = idx + 1
                         /\ UNCHANGED <<pc, all_movies, stage_result,
                                        stage_status>>

PaginatedAttempt ==
    /\ pc = "stage2"
    /\ RunningBestAttempt(2)
    /\ UNCHANGED <<result, outcome, passes, visited, retries>>

EndpointAttempt ==
    /\ pc = "stage3"
    /\ RunningBestAttempt(3)
    /\ UNCHANGED <<result, outcome, passes, visited, retries>>

Init ==
    /\ pc = "stage1"
    /\ idx = 1
    /\ movies = <<>>
    /\ all_movies = <<>>
    /\ stage_result = [s \in 1..3 |-> <<>>]
    /\ stage_status = [s \in 1..3 |-> IF s = 1 THEN "running" ELSE "notrun"]
    /\ last = NoFetch
    /\ longest = [s \in 1..3 |-> <<>>]
    /\ result = <<>>
    /\ outcome = "running"
    /\ passes = 0
    /\ visited = <<>>
    /\ retries = DefaultRetries

Next == ClassicAttempt \/ PaginatedAttempt \/ EndpointAttempt \/ NormaliseStep

Spec == Init /\ [][Next]_vars

-----------------------------------------------------------------------------
(* scrape_top250 over whatever lists its three stages return *)

\* How the items of a candidate list are ranked, and what titles they carry:
\* an item has its own title, the title of the first item, or "Unknown".
RankOrders == {"ascending", "descending", "unranked"}
TitlePatterns(n) == [1..n -> {"own", "first", "unknown"}]

\* The list a stage returns: n items as its extractors build them, each
\* telling its stage and its place in the list in its url.
CandidateList(stage, n, order, pattern) ==
    [i \in 1..n |->
        Item(CASE order = "ascending" -> i
               [] order = "descending" -> n + 1 - i
               [] OTHER -> None,
             CASE pattern[i] = "own" -> TitleNames[i]
               [] pattern[i] = "first" -> TitleNames[1]
               [] OTHER -> Unknown,
             stage, i)]

\* Lines 610-628 for one stage: the stage method returns a list (Method 1
\* only [] or a list of more than 50), the longer list is kept, the gate
\* decides what runs next.
StageReturns ==
    /\ \E stage \in 1..3 :
        /\ pc = StagePc(stage)
        /\ \E n \in 0..MaxLen, order \in RankOrders :
            \E pattern \in TitlePatterns(n) :
                /\ stage = 1 => (n = 0 \/ n > ClassicMin)
                /\ AfterStage(stage, CandidateList(stage, n, order, pattern),
                              "returned")
    /\ UNCHANGED <<last, longest, result, outcome, passes, visited, retries>>

NextSelection == StageReturns \/ NormaliseStep

SpecSelection == Init /\ [][NextSelection]_vars

-----------------------------------------------------------------------------
(* extract_movies_from_any_page *)

\* len(movies) >= 100 after a JSON-LD block; len(movies) < 100 before Method 3
JsonLdMin == 2
HtmlBelow == 2
\* len(titles) > 50 in extract_from_embedded_json
EmbeddedMin == 1

\* Bounds of a document: JSON-LD blocks, entries of an itemListElement array,
\* script tags with embedded JSON.
MaxBlocks == 3
MaxEntries == 3
MaxScripts == 2

\* An entry of itemListElement: without 'item', with 'item', or with 'item'
\* and a 'position'.
EntryKinds == {"no_item", "item", "item_position"}

\* A ld+json script: json.loads raises JSONDecodeError ("bad"), or another
\* step raises ("throws": script.string is None, an entry is no dict), or it
\* is parsed ("data"; without itemListElement it has no entries).
Blocks ==
    {[kind |-> "bad", entries |-> <<>>], [kind |-> "throws", entries |-> <<>>]}
    \cup UNION { { [kind |-> "data", entries |-> es] :
                     es \in [1..n -> EntryKinds] } : n \in 0..MaxEntries }

\* movie_data of entry e of block b, appended to `list`:
\* rank is item.get('position', len(movies) + 1)
EntryItem(list, b, e, kind) ==
    Item(IF kind = "item_position" THEN e ELSE Len(list) + 1,
         TitleNames[e], <<"jsonld", b>>, e)

\* for item in data['itemListElement']: if 'item' in item: movies.append(...)
RECURSIVE AppendEntries(_, _, _, _)
AppendEntries(list, b, entries, e) ==
    IF e > Len(entries) THEN list
    ELSE AppendEntries(
             IF entries[e] = "no_item" THEN list
             ELSE Append(list, EntryItem(list, b, e, entries[e])),
             b, entries, e + 1)

\* Mutant of JsonLdReached: > 100.
JsonLdReachedStrict(list) == Len(list) > JsonLdMin

\* if len(movies) >= 100
JsonLdReached(list) == Len(list) >= JsonLdMin

Return(value) ==
    /\ result' = value
    /\ outcome' = "returned"
    /\ pc' = "done"

\* Method 1, one ld+json script.
JsonLdBlock ==
    /\ pc = "jsonld"
    /\ Len(visited) < MaxBlocks
    /\ \E block \in Blocks :
        LET b == Len(visited) + 1
            extended == AppendEntries(movies, b, block.entries, 1)
        IN  /\ visited' = Append(visited, block)
            /\ CASE block.kind = "bad" ->
                      UNCHANGED <<pc, movies, result, outcome>>
                 [] block.kind = "throws" ->
                      Return(<<>>) /\ UNCHANGED movies
                 [] OTHER ->
                      /\ movies' = extended
                      /\ IF JsonLdReached(extended)
                         THEN Return(extended)
                         ELSE UNCHANGED <<pc, result, outcome>>
    /\ UNCHANGED <<idx, all_movies, stage_result, stage_status, last, longest,
                   passes, retries>>

\* The loop over the ld+json scripts ends; Method 2 begins.
JsonLdEnd ==
    /\ pc = "jsonld"
    /\ pc' = "scripts"
    /\ idx' = 1
    /\ UNCHANGED <<movies, all_movies, stage_result, stage_status, last,
                   longest, result, outcome, passes, visited, retries>>

\* What extract_from_embedded_json returns for a script: nothing, or the
\* titles of the first pattern with more than 50 matches.
EmbeddedLengths == {0} \cup ((EmbeddedMin + 1)..MaxPage)

\* Method 2, one script tag naming titleText or movies.
ScriptTag ==
    /\ pc = "scripts"
    /\ idx <= MaxScripts
    /\ \E n \in EmbeddedLengths :
        movies' = Select(movies, Page("embedded", idx, n))
    /\ idx' = idx + 1
    /\ UNCHANGED <<pc, all_movies, stage_result, stage_status, last, longest,
                   result, outcome, passes, visited, retries>>

\* The loop over the script tags ends; Method 3 and the return.
HtmlSweep ==
    /\ pc = "scripts"
    /\ \E n \in 0..MaxPage :
        IF Len(movies) < HtmlBelow
        THEN /\ movies' = Select(movies, Page("html", 0, n))
             /\ Return(movies')
        ELSE /\ n = 0
             /\ Return(movies)
             /\ UNCHANGED movies
    /\ UNCHANGED <<idx, all_movies, stage_result, stage_status, last, longest,
                   passes, visited, retries>>

InitAnyPage ==
    /\ pc = "jsonld"
    /\ idx = 0
    /\ movies = <<>>
    /\ all_movies = <<>>
    /\ stage_result = [s \in 1..3 |-> <<>>]
    /\ stage_status = [s \in 1..3 |-> "notrun"]
    /\ last = NoFetch
    /\ longest = [s \in 1..3 |-> <<>>]
    /\ result = <<>>
    /\ outcome = "running"
    /\ passes = 0
    /\ visited = <<>>
    /\ retries = DefaultRetries

NextAnyPage == JsonLdBlock \/ JsonLdEnd \/ ScriptTag \/ HtmlSweep

SpecAnyPage == InitAnyPage /\ [][NextAnyPage]_vars

-----------------------------------------------------------------------------
(* parse_html_for_movies *)

\* len(selectors)
NumSelectors == 5
\* len(movies) > 50
SelectorMin == 1

\* The most elements a selector matches.
MaxElems == 2

\* What extract_movie_data_generic makes of an element: a movie, a movie
\* titled "Unknown", or None (it raised).
ElementKinds == {"movie", "unknown", "none"}

ElementLists == UNION { [1..n -> ElementKinds] : n \in 0..MaxElems }

\* for i, element in enumerate(elements, 1):
\*     if movie_data and movie_data['title'] != "Unknown": movies.append(...)
RECURSIVE AppendElements(_, _, _, _)
AppendElements(list, sel, elements, i) ==
    IF i > Len(elements) THEN list
    ELSE AppendElements(
             IF elements[i] = "movie"
             THEN Append(list, Item(i, TitleNames[i], <<"selector", sel>>, i))
             ELSE list,
             sel, elements, i + 1)

\* One selector of the sweep, and the return after the loop or its break.
SelectorStep ==
    /\ pc = "sweep"
    /\ \E elements \in ElementLists :
        LET extended == AppendElements(movies, idx, elements, 1)
        IN  /\ visited' = Append(visited, elements)
            /\ movies' = extended
            /\ IF Len(extended) > SelectorMin \/ idx = NumSelectors
               THEN Return(extended) /\ UNCHANGED idx
               ELSE idx' = idx + 1 /\ UNCHANGED <<pc, result, outcome>>
    /\ UNCHANGED <<all_movies, stage_result, stage_status, last, longest,
                   passes, retries>>

InitSweep ==
    /\ pc = "sweep"
    /\ idx = 1
    /\ movies = <<>>
    /\ all_movies = <<>>
    /\ stage_result = [s \in 1..3 |-> <<>>]
    /\ stage_status = [s \in 1..3 |-> "notrun"]
    /\ last = NoFetch
    /\ longest = [s \in 1..3 |-> <<>>]
    /\ result = <<>>
    /\ outcome = "running"
    /\ passes = 0
    /\ visited = <<>>
    /\ retries = DefaultRetries

NextSweep == SelectorStep

SpecSweep == InitSweep /\ [][NextSweep]_vars

-----------------------------------------------------------------------------
(* extract_from_embedded_json *)

\* the variables of scrape_top250 that the page parsers and helpers leave alone
orchestratorVars ==
    <<all_movies, stage_result, stage_status, last, longest, passes, retries>>

OrchestratorIdle ==
    /\ all_movies = <<>>
    /\ stage_result = [s \in 1..3 |-> <<>>]
    /\ stage_status = [s \in 1..3 |-> "notrun"]
    /\ last = NoFetch
    /\ longest = [s \in 1..3 |-> <<>>]
    /\ passes = 0

\* len(patterns)
NumPatterns == 3
\* titles[:250]
EmbeddedCap == 2

\* The most matches a pattern has in a script.
MaxTitles == 3

\* re.findall(pattern, script_content): the titles a pattern matches
TitleMatches == UNION { [1..n -> {"A", "B"}] : n \in 0..MaxTitles }

\* re.findall of "releaseYear" / "ratingValue": n matches, in script order
YearMatches(n) == [j \in 1..n |-> 1990 + j]
RatingMatches(n) == [j \in 1..n |-> j]

\* Mutant of PairedWith: the arrays are zipped, so an index the shorter array
\* lacks takes its last value.
PairedWithLast(values, i) ==
    IF values = <<>> THEN None ELSE values[Min(i, Len(values))]

\* int(years[i]) if i < len(years) else None (i is 0-based there, 1-based here)
PairedWith(values, i) ==
    IF i <= Len(values) THEN values[i] ELSE None

\* for i, title in enumerate(titles[:250]): movies.append({...})
EmbeddedMovies(titles, years, ratings) ==
    [i \in 1..Min(Len(titles), EmbeddedCap) |->
        [rank |-> i, title |-> titles[i], year |-> PairedWith(years, i),
         rating |-> PairedWith(ratings, i), url |-> None]]

\* One title pattern: with more than 50 matches the years and ratings are
\* read and the movies returned; after the last pattern the empty list is.
PatternStep ==
    /\ pc = "patterns"
    /\ \E titles \in TitleMatches, ny \in 0..MaxTitles, nr \in 0..MaxTitles :
        LET taken == Len(titles) > EmbeddedMin
            years == YearMatches(ny)
            ratings == RatingMatches(nr)
        IN  /\ ~taken => (ny = 0 /\ nr = 0)
            /\ visited' = Append(visited, [titles |-> titles, years |-> years,
                                           ratings |-> ratings])
            /\ IF taken
               THEN /\ movies' = EmbeddedMovies(titles, years, ratings)
                    /\ Return(movies')
                    /\ UNCHANGED idx
               ELSE IF idx = NumPatterns
                    THEN Return(movies) /\ UNCHANGED <<idx, movies>>
                    ELSE /\ idx' = idx + 1
                         /\ UNCHANGED <<pc, movies, result, outcome>>
    /\ UNCHANGED orchestratorVars

InitEmbedded ==
    /\ pc = "patterns"
    /\ idx = 1
    /\ movies = <<>>
    /\ result = <<>>
    /\ outcome = "running"
    /\ visited = <<>>
    /\ retries = DefaultRetries
    /\ OrchestratorIdle

NextEmbedded == PatternStep

SpecEmbedded == InitEmbedded /\ [][NextEmbedded]_vars

-----------------------------------------------------------------------------
(* main *)

\* The except clauses around each position of main's run, innermost first.
\* IMDbTop250Scraper() and input() stand before main's try statement.
EnclosingHandlers(at) ==
    CASE at = "construct" -> <<"Exception">>
      [] at = "prompt" -> <<>>
      [] at \in {"stage1", "stage2", "stage3"} ->
            <<"RequestException", "Exception", "KeyboardInterrupt", "Exception">>
      [] at = "normalise" -> <<"KeyboardInterrupt", "Exception">>
      [] at = "done" -> <<"KeyboardInterrupt", "Exception">>
      [] at = "save" -> <<"Exception", "KeyboardInterrupt", "Exception">>
      [] at = "display" -> <<"KeyboardInterrupt", "Exception">>
      [] OTHER -> <<>>

\* Python's exception hierarchy: KeyboardInterrupt derives from BaseException,
\* not from Exception; requests.RequestException derives from Exception.
Catches(clause, exc) ==
    \/ clause = exc
    \/ clause = "Exception" /\ exc # "KeyboardInterrupt"

\* the position in the chain of the first clause that catches exc, 0 if none
RECURSIVE CaughtFrom(_, _, _)
CaughtFrom(chain, k, exc) ==
    IF k > Len(chain) THEN 0
    ELSE IF Catches(chain[k], exc) THEN k
    ELSE CaughtFrom(chain, k + 1, exc)

CaughtBy(chain, exc) == CaughtFrom(chain, 1, exc)

\* scraper = IMDbTop250Scraper(): _initialize_session visits the main page,
\* and a request that fails is logged and forgotten.
Construct ==
    /\ pc = "construct"
    /\ pc' = "prompt"
    /\ UNCHANGED <<idx, movies, result, outcome, visited>>
    /\ UNCHANGED orchestratorVars

\* filename = input(...); then scraper.scrape_top250() starts inside the try.
Prompt ==
    /\ pc = "prompt"
    /\ pc' = "stage1"
    /\ stage_status' = [stage_status EXCEPT ![1] = "running"]
    /\ UNCHANGED <<idx, movies, all_movies, stage_result, last, longest,
                   result, outcome, passes, visited, retries>>

\* scrape_top250 raised (except Exception, line 813), or returned movies:
\* if movies: save_to_csv ... else "No movie data could be scraped".
AfterScrape ==
    /\ pc = "done"
    /\ IF outcome # "returned"
       THEN pc' = "exit" /\ outcome' = "unexpected error"
       ELSE IF result # <<>>
            THEN pc' = "save" /\ UNCHANGED outcome
            ELSE pc' = "exit" /\ outcome' = "no data"
    /\ UNCHANGED <<idx, movies, result, visited>>
    /\ UNCHANGED orchestratorVars

\* success = scraper.save_to_csv(movies, filename)
SaveToCsv ==
    /\ pc = "save"
    /\ \E success \in BOOLEAN :
        IF success
        THEN pc' = "display" /\ UNCHANGED outcome
        ELSE pc' = "exit" /\ outcome' = "save failed"
    /\ UNCHANGED <<idx, movies, result, visited>>
    /\ UNCHANGED orchestratorVars

\* scraper.display_summary(movies, top_n=15) and the closing prints
DisplaySummary ==
    /\ pc = "display"
    /\ pc' = "exit"
    /\ outcome' = "saved"
    /\ UNCHANGED <<idx, movies, result, visited>>
    /\ UNCHANGED orchestratorVars

\* Ctrl-C: KeyboardInterrupt is raised at the current position and travels
\* outwards to the first clause that catches it.  The clause of line 811
\* prints "Scraping stopped by user"; with no such clause the exception
\* leaves main.
Interrupt ==
    /\ pc # "exit"
    /\ LET chain == EnclosingHandlers(pc)
           k == CaughtBy(chain, "KeyboardInterrupt")
       IN  /\ visited' = Append(visited, [raised |-> "KeyboardInterrupt",
                                          at |-> pc])
           /\ IF k = 0
              THEN pc' = "exit" /\ outcome' = "uncaught KeyboardInterrupt"
              ELSE IF chain[k] = "KeyboardInterrupt"
                   THEN pc' = "exit" /\ outcome' = "stopped by user"
                   ELSE IF k = Len(chain)
                        THEN pc' = "exit" /\ outcome' = "unexpected error"
                        ELSE UNCHANGED <<pc, outcome>>
    /\ UNCHANGED <<idx, movies, result>>
    /\ UNCHANGED orchestratorVars

InitMain ==
    /\ pc = "construct"
    /\ idx = 1
    /\ movies = <<>>
    /\ result = <<>>
    /\ outcome = "running"
    /\ visited = <<>>
    /\ retries = DefaultRetries
    /\ OrchestratorIdle

NextMain ==
    \/ Construct
    \/ Prompt
    \/ ClassicAttempt
    \/ PaginatedAttempt
    \/ EndpointAttempt
    \/ NormaliseStep
    \/ AfterScrape
    \/ SaveToCsv
    \/ DisplaySummary
    \/ Interrupt

SpecMain == InitMain /\ [][NextMain]_vars

-----------------------------------------------------------------------------
(* get_additional_details *)

\* len(director_selectors), len(genre_selectors), genre_elems[:3]
DirectorSelectors == 3
GenreSelectors == 3
GenreCap == 3

\* The most elements a genre selector matches.
MaxGenres == 4

\* get_text(strip=True) of the element a director selector finds
DirectorText(sel) == <<"Nolan", "Coppola", "Darabont">>[sel]

\* get_text(strip=True) of element j of the elements genre selector sel finds
GenreNames == <<"Drama", "Crime", "Action", "Thriller", "Comedy", "War">>
GenreText(sel, j) == GenreNames[((j + sel - 2) % Len(GenreNames)) + 1]

\* {'director': 'Unknown', 'runtime_minutes': None, 'genres': 'Unknown'}
Sentinels ==
    [director |-> Unknown, runtime_minutes |-> None, genres |-> Unknown]

\* Mutant of FirstMatching: the loop has no break, the last match stays.
RECURSIVE LastMatching(_, _)
LastMatching(found, sel) ==
    IF sel > Len(found) THEN 0
    ELSE LET later == LastMatching(found, sel + 1)
         IN  IF later # 0 THEN later
             ELSE IF found[sel] THEN sel ELSE 0

\* for selector in selectors: if <found>: ...; break -- the selector the loop
\* stops at, counting from sel; 0 when it runs to the end
RECURSIVE FirstMatching(_, _)
FirstMatching(found, sel) ==
    IF sel > Len(found) THEN 0
    ELSE IF found[sel] THEN sel
    ELSE FirstMatching(found, sel + 1)

\* ', '.join(genres)
RECURSIVE Join(_)
Join(genres) ==
    IF Len(genres) = 1 THEN genres[1]
    ELSE genres[1] \o ", " \o Join(Tail(genres))

\* [elem.get_text(strip=True) for elem in genre_elems[:3]]
GenresOf(sel, n) == [j \in 1..Min(n, GenreCap) |-> GenreText(sel, j)]

\* The record lines 693-697 build from a parsed page: has_director[sel] says
\* whether director selector sel finds an element, runtime is the number
\* before "min" or None, genre_count[sel] how many elements genre selector
\* sel finds.
Details(has_director, runtime, genre_count) ==
    LET d == FirstMatching(has_director, 1)
        g == FirstMatching([sel \in 1..GenreSelectors |-> genre_count[sel] > 0], 1)
        genres == IF g = 0 THEN <<>> ELSE GenresOf(g, genre_count[g])
    IN  [director |-> IF d = 0 THEN Unknown ELSE DirectorText(d),
         runtime_minutes |-> runtime,
         genres |-> IF genres # <<>> THEN Join(genres) ELSE Unknown]

\* The whole of get_additional_details for one detail page.  fetch: what
\* get_page_with_retries does (returns None, returns a response, or something
\* in the try block raises before or after the fetch).
GetAdditionalDetails ==
    /\ pc = "details"
    /\ \E fetch \in {"none", "raises", "ok", "parse raises"},
          has_director \in [1..DirectorSelectors -> BOOLEAN],
          runtime \in {None, 142},
          genre_count \in [1..GenreSelectors -> 0..MaxGenres] :
        /\ fetch \in {"none", "raises"} =>
              /\ has_director = [sel \in 1..DirectorSelectors |-> FALSE]
              /\ runtime = None
              /\ genre_count = [sel \in 1..GenreSelectors |-> 0]
        /\ visited' = Append(visited, [fetch |-> fetch,
                                       has_director |-> has_director,
                                       runtime |-> runtime,
                                       genre_count |-> genre_count])
        /\ IF fetch = "ok"
           THEN Return(Details(has_director, runtime, genre_count))
           ELSE Return(Sentinels)
    /\ UNCHANGED <<idx, movies>>
    /\ UNCHANGED orchestratorVars

InitDetails ==
    /\ pc = "details"
    /\ idx = 1
    /\ movies = <<>>
    /\ result = <<>>
    /\ outcome = "running"
    /\ visited = <<>>
    /\ retries = DefaultRetries
    /\ OrchestratorIdle

NextDetails == GetAdditionalDetails

SpecDetails == InitDetails /\ [][NextDetails]_vars

-----------------------------------------------------------------------------
(* extract_from_classic_page *)

\* The most rows / containers the page has.
MaxUnits == 2

\* A row of tbody.lister-list.  rating_cell: the text of td.ratingColumn as a
\* number of tenths ("9.2" is 92), None without the cell; title_cell: whether
\* td.titleColumn is there and holds a link; number_cell: the number in
\* td.numberColumn, None without it.
ClassicRows ==
    [rating_cell : {None, 5, 92},
     title_cell : {"absent", "no_link", "link"},
     number_cell : {None, 7}]

\* re.search(r'(\d+)', text): the first run of digits of "9.2" is 9
FirstDigits(tenths) == IF tenths = None THEN None ELSE tenths \div 10

\* `not rank`: None and 0 are falsy
Falsy(rank) == rank = None \/ rank = 0

\* if not title_cell: return None
ReturnsNone(row) == row.title_cell = "absent"

\* The dict extract_from_classic_row(row) returns for a row with a title
\* cell; the row stands at `position`, which the function is not told.
ExtractFromClassicRow(row, position) ==
    LET rank == FirstDigits(row.rating_cell)
    IN  [rank |-> IF Falsy(rank) /\ row.number_cell # None
                  THEN row.number_cell ELSE rank,
         title |-> IF row.title_cell = "link"
                   THEN TitleNames[position] ELSE Unknown,
         year |-> 1900 + position,
         rating |-> row.rating_cell,
         url |-> IF row.title_cell = "link"
                 THEN <<"row", position>> ELSE None]

\* A container li.ipc-metadata-list-summary-item.  title_elem: whether it has
\* an h3.ipc-title__text; prefix: the number of a leading "<number>." of the
\* title text, None without one; rest: the text after the prefix.
Containers ==
    [title_elem : BOOLEAN, prefix : {None, 1, 7}, rest : {"A", "B"}]

\* Mutant of ExtractFromContainer: the number of the prefix becomes the rank.
ExtractFromContainerPrefixRank(container, rank) ==
    [rank |-> IF container.title_elem /\ container.prefix # None
              THEN container.prefix ELSE rank,
     title |-> IF container.title_elem THEN container.rest ELSE Unknown,
     year |-> 1900 + rank,
     rating |-> 10 - rank,
     url |-> <<"container", rank>>]

\* extract_from_container(container, rank): re.match(r'^\d+\.\s*(.*)') keeps
\* group 1 as the title; the rank is the parameter
ExtractFromContainer(container, rank) ==
    [rank |-> rank,
     title |-> IF container.title_elem THEN container.rest ELSE Unknown,
     year |-> 1900 + rank,
     rating |-> 10 - rank,
     url |-> <<"container", rank>>]

\* for row in rows: movie_data = self.extract_from_classic_row(row) ...
ClassicRowStep ==
    /\ pc = "rows"
    /\ idx <= MaxUnits
    /\ \E row \in ClassicRows :
        /\ visited' = Append(visited,
                [unit |-> "row", position |-> idx, row |-> row,
                 item |-> IF ReturnsNone(row) THEN 0 ELSE Len(movies) + 1])
        /\ movies' = IF ReturnsNone(row) THEN movies
                     ELSE Append(movies, ExtractFromClassicRow(row, idx))
    /\ idx' = idx + 1
    /\ UNCHANGED <<pc, result, outcome>>
    /\ UNCHANGED orchestratorVars

\* The rows are through (or there is no tbody.lister-list): `if not movies`
\* goes on to the containers.
RowsEnd ==
    /\ pc = "rows"
    /\ IF movies = <<>>
       THEN /\ pc' = "containers"
            /\ idx' = 1
            /\ UNCHANGED <<result, outcome>>
       ELSE Return(movies) /\ UNCHANGED idx
    /\ UNCHANGED <<movies, visited>>
    /\ UNCHANGED orchestratorVars

\* for i, container in enumerate(containers, 1): ...
ContainerStep ==
    /\ pc = "containers"
    /\ idx <= MaxUnits
    /\ \E container \in Containers :
        /\ ~container.title_elem =>
              (container.prefix = None /\ container.rest = "A")
        /\ visited' = Append(visited,
                [unit |-> "container", position |-> idx,
                 container |-> container, item |-> Len(movies) + 1])
        /\ movies' = Append(movies, ExtractFromContainer(container, idx))
    /\ idx' = idx + 1
    /\ UNCHANGED <<pc, result, outcome>>
    /\ UNCHANGED orchestratorVars

\* The containers are through: `if not movies` goes on to all tr of the page.
ContainersEnd ==
    /\ pc = "containers"
    /\ IF movies = <<>>
       THEN /\ pc' = "any_rows"
            /\ idx' = 1
            /\ UNCHANGED <<result, outcome>>
       ELSE Return(movies) /\ UNCHANGED idx
    /\ UNCHANGED <<movies, visited>>
    /\ UNCHANGED orchestratorVars

\* for i, row in enumerate(all_rows): if self.is_movie_row(row):
\*     extract_from_any_row(row, len(movies) + 1)
AnyRowStep ==
    /\ pc = "any_rows"
    /\ idx <= MaxUnits
    /\ \E is_movie_row \in BOOLEAN :
        /\ visited' = Append(visited,
                [unit |-> "any_row", position |-> idx,
                 is_movie_row |-> is_movie_row,
                 item |-> IF is_movie_row THEN Len(movies) + 1 ELSE 0])
        /\ movies' = IF is_movie_row
                     THEN Append(movies,
                                 Item(Len(movies) + 1, TitleNames[idx],
                                      "any_row", idx))
                     ELSE movies
    /\ idx' = idx + 1
    /\ UNCHANGED <<pc, result, outcome>>
    /\ UNCHANGED orchestratorVars

\* return movies
AnyRowsEnd ==
    /\ pc = "any_rows"
    /\ Return(movies)
    /\ UNCHANGED <<idx, movies, visited>>
    /\ UNCHANGED orchestratorVars

InitClassicPage ==
    /\ pc = "rows"
    /\ idx = 1
    /\ movies = <<>>
    /\ result = <<>>
    /\ outcome = "running"
    /\ visited = <<>>
    /\ retries = DefaultRetries
    /\ OrchestratorIdle

NextClassicPage ==
    \/ ClassicRowStep
    \/ RowsEnd
    \/ ContainerStep
    \/ ContainersEnd
    \/ AnyRowStep
    \/ AnyRowsEnd

SpecClassicPage == InitClassicPage /\ [][NextClassicPage]_vars

-----------------------------------------------------------------------------
(* get_page_with_retries *)

\* The largest retries argument.
MaxRetries == 4

\* What session.get(url, timeout=15) followed by raise_for_status() can do:
\* pass, raise a requests.RequestException (connection error, timeout, HTTP
\* error status), or be cut short by an exception of another kind.
RequestExceptions == {"ConnectionError", "Timeout", "HTTPError"}
GetOutcomes == {"ok"} \cup RequestExceptions \cup {"KeyboardInterrupt"}

\* 2 ** attempt
RECURSIVE Pow2(_)
Pow2(n) == IF n = 0 THEN 1 ELSE 2 * Pow2(n - 1)

\* for attempt in range(retries)
InRange(attempt, r) == attempt < r

\* Mutant of BackoffFollows: the sleep is not guarded.
BackoffAlways(attempt, r) == TRUE

\* if attempt < retries - 1
BackoffFollows(attempt, r) == attempt < r - 1

\* One pass through the try block for attempt idx (0-based).  The response
\* returned is told by the number of the attempt that fetched it.
GetAttempt ==
    /\ pc = "attempt"
    /\ InRange(idx, retries)
    /\ \E o \in GetOutcomes :
        /\ visited' = Append(visited, [event |-> "get", attempt |-> idx,
                                       outcome |-> o])
        /\ CASE o = "ok" ->
                  /\ result' = idx
                  /\ outcome' = "returned"
                  /\ pc' = "done"
                  /\ UNCHANGED idx
             [] o \in RequestExceptions ->
                  /\ IF BackoffFollows(idx, retries)
                     THEN pc' = "sleep" /\ UNCHANGED idx
                     ELSE pc' = "attempt" /\ idx' = idx + 1
                  /\ UNCHANGED <<result, outcome>>
             [] OTHER ->
                  /\ outcome' = o
                  /\ pc' = "done"
                  /\ UNCHANGED <<idx, result>>
    /\ UNCHANGED movies
    /\ UNCHANGED orchestratorVars

\* time.sleep(2 ** attempt), then the next attempt
Backoff ==
    /\ pc = "sleep"
    /\ visited' = Append(visited, [event |-> "sleep", attempt |-> idx,
                                   seconds |-> Pow2(idx)])
    /\ idx' = idx + 1
    /\ pc' = "attempt"
    /\ UNCHANGED <<movies, result, outcome>>
    /\ UNCHANGED orchestratorVars

\* The range is exhausted: return None
ReturnNone ==
    /\ pc = "attempt"
    /\ ~InRange(idx, retries)
    /\ Return(None)
    /\ UNCHANGED <<idx, movies, visited>>
    /\ UNCHANGED orchestratorVars

InitRetry ==
    /\ pc = "attempt"
    /\ idx = 0
    /\ movies = <<>>
    /\ result = None
    /\ outcome = "running"
    /\ visited = <<>>
    /\ all_movies = <<>>
    /\ stage_result = [s \in 1..3 |-> <<>>]
    /\ stage_status = [s \in 1..3 |-> "notrun"]
    /\ last = NoFetch
    /\ longest = [s \in 1..3 |-> <<>>]
    /\ passes = 0
    /\ retries \in 0..MaxRetries

NextRetry == GetAttempt \/ Backoff \/ ReturnNone

SpecRetry == InitRetry /\ [][NextRetry]_vars

\* The function runs in one thread: its next statement is always executed,
\* and a request ends within its timeout.
SpecRetryLive == SpecRetry /\ WF_vars(NextRetry)

-----------------------------------------------------------------------------
(* Claims about the stages of scrape_top250, checked under Spec *)

Selected == pc \in {"normalise", "done"}

Started(stage) == stage_status[stage] # "notrun"
Finished(stage) == stage_status[stage] \in {"returned", "raised"}

C3_StagesGatedInOrder ==
    /\ pc = "stage1" => ~Started(2) /\ ~Started(3)
    /\ pc = "stage2" => Finished(1) /\ ~Started(3)
    /\ pc = "stage3" => Finished(1) /\ Finished(2)
    /\ pc \in {"stage2", "stage3"} => Len(all_movies) < GoodEnough
    /\ last.stage > 1 => Finished(1) /\ Len(stage_result[1]) < GoodEnough
    /\ last.stage > 2 =>
           Finished(2) /\ Len(stage_result[2]) < GoodEnough
    /\ Selected =>
        /\ Finished(1)
        /\ Started(2) <=> Len(stage_result[1]) < GoodEnough
        /\ Started(3) <=>
               /\ Len(stage_result[1]) < GoodEnough
               /\ Len(stage_result[2]) < GoodEnough
        /\ \A s \in 1..3 : Started(s) => Finished(s)

\* C3's case: Stage 1 fell short, Stage 2 reached the threshold and Stage 3
\* was skipped.
C3_Witness ==
    /\ Selected
    /\ Len(stage_result[1]) = GoodEnough - 1
    /\ Len(stage_result[2]) = GoodEnough
    /\ ~Started(3)
    /\ last.stage = 2

RanStages == {s \in 1..3 : Started(s)}

\* the earliest of the stages that ran whose result no other result exceeds
FirstLongestStage ==
    CHOOSE s \in RanStages :
        /\ \A t \in RanStages : Len(stage_result[t]) <= Len(stage_result[s])
        /\ \A t \in RanStages :
               Len(stage_result[t]) = Len(stage_result[s]) => s <= t

\* C4: among the results of the stages that ran the selection is by length
\* alone: a later result replaces the running best only when strictly longer,
\* so the longest result is normalised and, on equal lengths, the earliest.
C4_SelectionByLength ==
    Selected => all_movies = stage_result[FirstLongestStage]

\* C4's case: a longer result before a shorter one, and a tie with a later
\* stage; the first list is kept.
C4_Witness ==
    /\ Selected
    /\ Len(stage_result[1]) = 2
    /\ Len(stage_result[2]) = 1
    /\ Len(stage_result[3]) = 2
    /\ stage_result[1] # stage_result[3]
    /\ all_movies = stage_result[1]

FailedOutcomes == {"none", "non200", "raise"}

\* C8 (as claimed): after a fetch that yields no response (none, a non-200
\* status, or a failed request) the next attempt of the same stage is made,
\* unless the fetch was the stage's last; the run never halts on it.
C8_FailedFetchProceeds ==
    /\ (last.outcome \in FailedOutcomes /\ last.idx < Attempts(last.stage)) =>
           /\ pc = StagePc(last.stage)
           /\ idx = last.idx + 1
    /\ (last.outcome \in FailedOutcomes /\ pc # "done") => outcome = "running"

-----------------------------------------------------------------------------
(* Claims about the page parsers *)

\* how many movies a JSON-LD block contributes
Contributes(block) ==
    Cardinality({e \in 1..Len(block.entries) : block.entries[e] # "no_item"})

\* a block whose array has exactly 100 (JsonLdMin) entries, each with an 'item'
ExactBlock(block) ==
    /\ block.kind = "data"
    /\ Len(block.entries) = JsonLdMin
    /\ Contributes(block) = JsonLdMin

FromEntry(movie, b, e) == movie.url = <<<<"jsonld", b>>, e>>

\* the function returned right after block b, with one item per entry of it
ReturnsExactly(b) ==
    /\ pc = "done"
    /\ Len(visited) = b
    /\ Len(result) = JsonLdMin
    /\ \A e \in 1..JsonLdMin : FromEntry(result[e], b, e)

\* C9 (as claimed): once a JSON-LD block of exactly 100 entries has been
\* processed, the function has returned exactly 100 items, one per entry in
\* entry order, and has processed nothing after that block.
C9_ExactBlockReturnsExactly ==
    \A b \in 1..Len(visited) :
        ExactBlock(visited[b]) => ReturnsExactly(b)

JsonLdCount(upto) ==
    LET sum[b \in 0..upto] ==
            IF b = 0 THEN 0 ELSE sum[b - 1] + Contributes(visited[b])
    IN  sum[upto]

\* C9 (amended): the function returns right after the first JSON-LD block at
\* which the items accumulated over all blocks so far number 100 or more, and
\* returns all of them; a block of exactly 100 entries yields exactly 100
\* items, one per entry in entry order, only when no earlier block contributed
\* an item.  Nothing is processed after that block.
C9_ReturnsAccumulated ==
    /\ pc = "jsonld" => Len(movies) < JsonLdMin
    /\ \A b \in 1..Len(visited) :
           (visited[b].kind = "data" /\ JsonLdCount(b) >= JsonLdMin) =>
               /\ pc = "done"
               /\ Len(visited) = b
               /\ Len(result) = JsonLdCount(b)
               /\ \A k \in 1..Len(result) :
                      \E a \in 1..b, e \in 1..MaxEntries :
                          FromEntry(result[k], a, e)
               /\ \A k, l \in 1..Len(result) :
                      k < l =>
                          \/ result[k].url[1][2] < result[l].url[1][2]
                          \/ /\ result[k].url[1] = result[l].url[1]
                             /\ result[k].url[2] < result[l].url[2]
               /\ (ExactBlock(visited[b]) /\ JsonLdCount(b - 1) = 0) =>
                      ReturnsExactly(b)

\* C9's case: an unparsable block, then a block of exactly 100 entries, and
\* the return of its 100 items.
C9_Witness ==
    /\ Len(visited) = 2
    /\ visited[1].kind = "bad"
    /\ ExactBlock(visited[2])
    /\ ReturnsExactly(2)

ValidCount(elements) ==
    Cardinality({i \in 1..Len(elements) : elements[i] = "movie"})

\* C10 (as claimed): the result of the sweep is built from the elements of the
\* first selector that yields more than 50 (SelectorMin) items, and holds no
\* item of another selector.
C10_OnlyPassingSelector ==
    pc = "done" =>
        \A s \in 1..Len(visited) :
            ( /\ ValidCount(visited[s]) > SelectorMin
              /\ \A t \in 1..(s - 1) : ValidCount(visited[t]) <= SelectorMin ) =>
                /\ Len(result) = ValidCount(visited[s])
                /\ \A k \in 1..Len(result) : result[k].url[1] = <<"selector", s>>

-----------------------------------------------------------------------------
(* Claims about the normalisation, checked under SpecNorm *)

SameButRank(a, b) ==
    /\ a.title = b.title
    /\ a.year = b.year
    /\ a.rating = b.rating
    /\ a.url = b.url

InResult(movie) == \E k \in 1..Len(result) : SameButRank(result[k], movie)

ContiguousRanks == \A k \in 1..Len(result) : result[k].rank = k

ValidTitle(t) == t # Unknown /\ t # NoTitle

\* C1: every list scrape_top250 returns has the ranks 1..N in list order,
\* pairwise distinct titles, no "Unknown" or missing title, and N <= 250 (Cap).
C1_ReturnedListWellFormed ==
    outcome = "returned" =>
        /\ Len(result) <= Cap
        /\ ContiguousRanks
        /\ \A k \in 1..Len(result) : ValidTitle(result[k].title)
        /\ \A k, l \in 1..Len(result) :
               k # l => result[k].title # result[l].title

\* C1's case: a winning list with more valid titles than the cap, listed out
\* of rank order, was normalised: it was sorted, re-ranked, cut and returned.
C1_Witness ==
    /\ pc = "done"
    /\ passes = 1
    /\ outcome = "returned"
    /\ Len(result) = Cap
    /\ Len(ValidMovies(all_movies)) > Cap
    /\ result[1].url # all_movies[1].url
    /\ \E i \in 1..Len(all_movies) :
           /\ InResult(all_movies[i])
           /\ all_movies[i] \notin {result[k] : k \in 1..Len(result)}

\* C5 (as claimed): when a valid title occurs at input positions i < j, the run
\* returns a list that holds the item of position i (unless the cap cut it),
\* not the item of position j, with contiguous ranks, whatever the ranks of
\* the items are.
C5_FirstOccurrenceWins ==
    (pc = "done" /\ passes = 1) =>
        \A i, j \in 1..Len(all_movies) :
            (i < j /\ all_movies[i].title = all_movies[j].title
                   /\ ValidTitle(all_movies[i].title)) =>
                /\ outcome = "returned"
                /\ ~InResult(all_movies[j])
                /\ InResult(all_movies[i]) \/ Len(ValidMovies(all_movies)) > Cap
                /\ ContiguousRanks

\* C6 (as claimed): the sort and the rank reassignment complete for any mix of
\* ranked and unranked (rank None) items, and the unranked items are placed
\* after all ranked ones.
C6_UnrankedSortLast ==
    (pc = "done" /\ passes = 1) =>
        /\ outcome = "returned"
        /\ \A a, b \in 1..Len(all_movies) :
               ( /\ all_movies[a].rank = None
                 /\ all_movies[b].rank # None
                 /\ InResult(all_movies[a])
                 /\ InResult(all_movies[b]) ) =>
                   \A k, l \in 1..Len(result) :
                       ( SameButRank(result[k], all_movies[a])
                         /\ SameButRank(result[l], all_movies[b]) ) => l < k

\* C7: the normaliser applied to a list it returned returns the same list:
\* the same items in the same order with the same ranks.
C7_Idempotent ==
    (pc = "done" /\ passes = 2) =>
        /\ outcome = "returned"
        /\ result = all_movies

\* C7's case: a returned list of Cap items went through the normaliser again.
C7_Witness ==
    /\ pc = "done"
    /\ passes = 2
    /\ Len(all_movies) = Cap
    /\ Len(result) = Cap

-----------------------------------------------------------------------------
(* Claims about extract_from_embedded_json, checked under SpecEmbedded *)

\* the matches of the pattern tried last
LastTried == visited[Len(visited)]

\* C11: when the first title pattern with more than 50 (EmbeddedMin) matches
\* yields titles T, the result has min(|T|, 250) items; item i has title T[i],
\* rank i, the i-th year and the i-th rating when there is one and None
\* otherwise; shorter year or rating arrays raise nothing and drop or shift
\* no item.  No earlier pattern had more than 50 matches.
C11_PairedByIndex ==
    pc = "done" =>
        /\ outcome = "returned"
        /\ \A p \in 1..(Len(visited) - 1) :
               Len(visited[p].titles) <= EmbeddedMin
        /\ IF Len(LastTried.titles) > EmbeddedMin
           THEN /\ Len(result) = Min(Len(LastTried.titles), EmbeddedCap)
                /\ \A i \in 1..Len(result) :
                    /\ result[i].title = LastTried.titles[i]
                    /\ result[i].rank = i
                    /\ result[i].year =
                          IF i <= Len(LastTried.years)
                          THEN LastTried.years[i] ELSE None
                    /\ result[i].rating =
                          IF i <= Len(LastTried.ratings)
                          THEN LastTried.ratings[i] ELSE None
           ELSE Len(visited) = NumPatterns /\ result = <<>>

\* C11's case: the second pattern is the first with enough titles, more than
\* the cap; there are fewer years than titles and no ratings.
C11_Witness ==
    /\ pc = "done"
    /\ Len(visited) = 2
    /\ Len(LastTried.titles) > EmbeddedCap
    /\ Len(LastTried.years) = 1
    /\ Len(LastTried.ratings) = 0
    /\ Len(result) = EmbeddedCap
    /\ result[1].year # None
    /\ result[2].year = None

-----------------------------------------------------------------------------
(* Claims about main, checked under SpecMain *)

\* C12: a KeyboardInterrupt arriving at any point of main's run (session
\* initialisation in the constructor, the filename prompt, a stage's fetch,
\* backoff or delay, normalisation, saving) ends the run with the "stopped by
\* user" outcome: it is not reported as an unexpected error, not swallowed,
\* and does not leave main uncaught.
C12_InterruptStopsCleanly ==
    \A i \in 1..Len(visited) :
        visited[i].raised = "KeyboardInterrupt" =>
            pc = "exit" /\ outcome = "stopped by user"

-----------------------------------------------------------------------------
(* Claims about get_additional_details, checked under SpecDetails *)

\* the detail page the call was given
DetailPage == visited[1]

\* the texts genre selector sel contributes when it is the first that matches
FirstThree(sel) ==
    LET n == DetailPage.genre_count[sel]
    IN  IF n = 1 THEN GenreText(sel, 1)
        ELSE IF n = 2 THEN GenreText(sel, 1) \o ", " \o GenreText(sel, 2)
        ELSE GenreText(sel, 1) \o ", " \o GenreText(sel, 2) \o ", "
             \o GenreText(sel, 3)

\* C13: get_additional_details never raises and always returns a record with
\* exactly the fields director, runtime_minutes and genres.  With no response
\* or a step that throws the record is ("Unknown", None, "Unknown").  On a
\* fetched page director is "Unknown" when no director selector matches and
\* else the text of the first selector that matches; genres is "Unknown" when
\* no genre selector matches and else joins at most 3 entries of the first
\* genre selector that matches.
C13_DetailsAlwaysReturned ==
    pc = "done" =>
        /\ outcome = "returned"
        /\ DOMAIN result = {"director", "runtime_minutes", "genres"}
        /\ DetailPage.fetch # "ok" => result = Sentinels
        /\ DetailPage.fetch = "ok" =>
            /\ (\A sel \in 1..DirectorSelectors : ~DetailPage.has_director[sel])
                  => result.director = Unknown
            /\ \A sel \in 1..DirectorSelectors :
                  ( /\ DetailPage.has_director[sel]
                    /\ \A t \in 1..(sel - 1) : ~DetailPage.has_director[t] )
                  => result.director = DirectorText(sel)
            /\ (\A sel \in 1..GenreSelectors : DetailPage.genre_count[sel] = 0)
                  => result.genres = Unknown
            /\ \A sel \in 1..GenreSelectors :
                  ( /\ DetailPage.genre_count[sel] > 0
                    /\ \A t \in 1..(sel - 1) : DetailPage.genre_count[t] = 0 )
                  => result.genres = FirstThree(sel)
            /\ result.runtime_minutes = DetailPage.runtime

\* C13's case: the first director selector finds nothing, the second and the
\* third do; the first genre selector finds nothing, the second more than
\* three elements; no runtime is on the page.
C13_Witness ==
    /\ pc = "done"
    /\ DetailPage.fetch = "ok"
    /\ DetailPage.has_director = <<FALSE, TRUE, TRUE>>
    /\ DetailPage.genre_count[1] = 0
    /\ DetailPage.genre_count[2] > GenreCap
    /\ result = [director |-> "Coppola", runtime_minutes |-> None,
                 genres |-> "Crime, Action, Thriller"]

-----------------------------------------------------------------------------
(* Claims about extract_from_classic_page, checked under SpecClassicPage *)

\* the units of one kind the page extractor went through
UnitsSeen(unit) == { i \in 1..Len(visited) : visited[i].unit = unit }

\* the places in the returned list of the item the unit of step i yielded
ItemsOf(i) == { k \in 1..Len(result) : k = visited[i].item }

\* C14: an item extract_from_classic_row returns has the row's explicit rank
\* marker (its number cell) as rank when the row has one and the row's
\* 1-based position otherwise; the rank is never absent and never taken from
\* the rating cell.
C14_RankMarkerElsePosition ==
    pc = "done" =>
        \A i \in UnitsSeen("row") : \A k \in ItemsOf(i) :
            /\ result[k].rank # None
            /\ result[k].rank =
                  IF visited[i].row.number_cell # None
                  THEN visited[i].row.number_cell
                  ELSE visited[i].position

-----------------------------------------------------------------------------
(* Claims about get_page_with_retries, checked under SpecRetryLive *)

\* the requests made so far, and those that failed with a request error
Gets == { i \in 1..Len(visited) : visited[i].event = "get" }
FailedGets == { i \in Gets : visited[i].outcome \in RequestExceptions }

\* what the claim says of every moment of a call
RetryDiscipline ==
    /\ Cardinality(Gets) <= retries
    /\ \A i \in Gets :
          /\ visited[i].attempt = Cardinality({ j \in Gets : j < i })
          /\ visited[i].outcome = "ok" =>
                /\ i = Len(visited)
                /\ pc = "done" /\ outcome = "returned"
                /\ result = visited[i].attempt
                /\ \A j \in Gets : j < i => j \in FailedGets
    /\ (pc = "done" /\ outcome = "returned" /\ result # None) =>
          /\ visited # <<>>
          /\ visited[Len(visited)].event = "get"
          /\ visited[Len(visited)].outcome = "ok"
    /\ pc = "done" =>
          ( (outcome = "returned" /\ result = None)
            <=> (Cardinality(Gets) = retries /\ FailedGets = Gets) )
    /\ \A i \in 1..Len(visited) :
          visited[i].event = "sleep" =>
              /\ i > 1
              /\ (i - 1) \in FailedGets
              /\ visited[i].seconds = Pow2(visited[i - 1].attempt)
              /\ visited[i - 1].attempt < retries - 1
    /\ \A i \in FailedGets :
          (visited[i].attempt < retries - 1 /\ (i < Len(visited) \/ pc = "done"))
              => (i < Len(visited) /\ visited[i + 1].event = "sleep")

\* C16: get_page_with_retries(url, retries) makes at most `retries` attempts,
\* one at a time; it returns the response of the first attempt that succeeds
\* and makes no attempt after it; it returns None if and only if all
\* `retries` attempts failed with a request error; after failed attempt k it
\* waits 2^k seconds only when another attempt follows; it always terminates.
C16_RetriesThenTerminates ==
    [] RetryDiscipline /\ <>(pc = "done")

\* C16's case: called with the default of three retries, every attempt fails;
\* the waits were 1 and 2 seconds, none after the last attempt.
C16_Witness ==
    /\ pc = "done"
    /\ retries = DefaultRetries
    /\ outcome = "returned"
    /\ result = None
    /\ Len(visited) = 5
    /\ visited[2].event = "sleep" /\ visited[2].seconds = 1
    /\ visited[4].event = "sleep" /\ visited[4].seconds = 2
    /\ visited[5].event = "get"

-----------------------------------------------------------------------------
(* Claims about what the normalisation keeps, checked under SpecSelection *)

\* the distinct valid titles of the winning list
WinningTitles ==
    { all_movies[i].title : i \in 1..Len(all_movies) } \ {Unknown, NoTitle}

\* C17: normalisation changes nothing but rank.  Every item of the list
\* scrape_top250 returns is an item of the winning candidate list with its
\* title, year, rating and url unchanged, none is invented; up to the cap
\* the output holds exactly one item for each distinct valid title of the
\* winning list; the winning list is what a stage returned, and no item of a
\* stage's list that was not selected is in the output.
C17_OnlyRankChanges ==
    outcome = "returned" =>
        /\ \A k \in 1..Len(result) :
              \E i \in 1..Len(all_movies) : SameButRank(result[k], all_movies[i])
        /\ \A k \in 1..Len(result) : result[k].title \in WinningTitles
        /\ \A k, l \in 1..Len(result) :
              result[k].title = result[l].title => k = l
        /\ Len(result) = Min(Cardinality(WinningTitles), Cap)
        /\ all_movies = <<>> \/ \E s \in 1..3 : all_movies = stage_result[s]
        /\ \A s \in 1..3 :
              stage_result[s] # all_movies =>
                  \A i \in 1..Len(stage_result[s]) :
                      ~InResult(stage_result[s][i])

\* C17's case: Method 1 returned two items, Method 2 three, ranked backwards
\* and with a repeated title; Method 2's list won and was normalised: its
\* last item comes first, the repeat is gone.
C17_Witness ==
    /\ pc = "done"
    /\ outcome = "returned"
    /\ Len(stage_result[1]) = 2
    /\ Len(stage_result[2]) = 3
    /\ all_movies = stage_result[2]
    /\ all_movies[2].title = all_movies[1].title
    /\ Len(result) = 2
    /\ result[1].url = all_movies[3].url
    /\ result[2].url = all_movies[1].url
    /\ result[2].rank # all_movies[1].rank

=============================================================================
